---- MODULE Spec2Model ----
(***************************************************************************)
(* Request path of the HTTP -> Cocaine gateway: the safe-retry future      *)
(* AppWithSafeRetry (src/route/app.rs), the callback it posts to the pool  *)
(* as Event::Service, the one-shot channel of every attempt and the        *)
(* response dispatcher AppReadDispatch that answers on it.                 *)
(*                                                                         *)
(* One HTTP request is followed from TimeoutMiddleware::call             *)
(* (src/service/cocaine.rs) through ProxyService::call, AppRoute::process  *)
(* and AppRoute::invoke to the resolution of the future handed to the HTTP *)
(* layer.  The pool, the backend and the timer are the environment: the    *)
(* pool either runs the posted callback with its current Settings or drops *)
(* the event, the backend delivers frames to the dispatcher registered by  *)
(* the callback, the Timeout has fired or not when the future is polled.   *)
(***************************************************************************)
EXTENDS Integers, Sequences, FiniteSets, TLC

VARIABLES
    request,    \* AppRequest and the tracing policy of the request
    attempts,   \* AppWithSafeRetry.attempts
    headers,    \* AppWithSafeRetry.headers, built once by make_headers
    verbose,    \* AppWithSafeRetry.verbose, the shared AtomicBool
    current,    \* AppWithSafeRetry.current: index of the attempt awaited, 0 = none
    result,     \* what AppWithSafeRetry::poll has resolved to
    events,     \* every Event::Service sent to the pool, in send order
    chan,       \* the one-shot channel of every attempt
    disp,       \* the AppReadDispatch of every attempt
    pool,       \* the settings the pool holds for the service of the request
    spanDraws,  \* the values rand::random::<u64>() returned in make_headers
    history,    \* whether an error frame is kept with what came before it
    http,       \* the HTTP request, until AppRoute has consumed it
    pc,         \* how far the request is: "accept", "body", "retry", "done", "unmatched"
    route,      \* what AppRoute::process made of the request
    timer,      \* the Timeout of TimeoutMiddleware::call: "idle", "armed", then
                \* "fired" or "dropped" as the last poll of the select found it
    log,        \* the AccessLogger of AppRoute::invoke and its commits
    inner,      \* the future of ProxyService::call
    final,      \* the future of TimeoutMiddleware::call
    metrics     \* Metrics.requests and Metrics.responses.c5xx

\* The state outside AppWithSafeRetry, the pool and the dispatchers.
outer == <<http, pc, route, timer, log, inner, final, metrics>>

vars == <<request, attempts, headers, verbose, current, result, events, chan, disp, pool,
          spanDraws, history, outer>>

(***************************************************************************)
(* Bounds of the model.                                                    *)
(***************************************************************************)
MaxTrace == 2       \* trace ids are 1..MaxTrace
MaxSpan == 1        \* random span ids are 1..MaxSpan
MaxBody == 2        \* longest buffered response body, in bytes

Traces == 1..MaxTrace
Spans == 1..MaxSpan

(***************************************************************************)
(* Program constants.                                                      *)
(***************************************************************************)
limit == 3                  \* AppWithSafeRetry::new(.., 3, ..) in AppRoute::invoke
RetrySafeCategory == 21247  \* 0x52ff
RetrySafeCode == 1
VicodynCategory == 21759    \* 0x54ff
UnavailableCategory == 10
UnavailableCode == 1

InternalServerError == 500
ServiceUnavailable == 503
StatusOk == 200
NoContent == 204
NotModified == 304

RetryLimitBody == "Retry limit exceeded: queue is full"
\* The source quotes the word close with grave accents; they are written as
\* apostrophes here, the length of the message is the same.
CloseWithoutMeta == "received 'close' event without prior meta info"

(***************************************************************************)
(* pack_u64: the 8 little-endian bytes of v.                               *)
(***************************************************************************)
RECURSIVE ShiftRight(_, _)
ShiftRight(v, bytes) == IF bytes = 0 THEN v ELSE ShiftRight(v \div 256, bytes - 1)

pack_u64(v) == [i \in 1..8 |-> ShiftRight(v, i - 1) % 256]

(***************************************************************************)
(* hpack raw headers sent to the backend: <<name, bytes>>.                 *)
(***************************************************************************)
TraceId(trace) == <<"trace_id", pack_u64(trace)>>
SpanId(span) == <<"span_id", pack_u64(span)>>
ParentId(parent) == <<"parent_id", pack_u64(parent)>>
TraceBit(b) == <<"trace_bit", IF b THEN <<1>> ELSE <<0>>>>

\* The headers map_headers can produce from the configured mapping.
MappedHeaders == { << <<"authorization", <<97>>>> >> }

(***************************************************************************)
(* HTTP responses: status, headers (name, value) in insertion order, body. *)
(***************************************************************************)
XRequestIdName == "X-Request-Id"
ContentLengthName == "Content-Length"
XErrorGeneratedByName == "X-Error-Generated-By"

\* Display of the XRequestId header value.
FmtRequestId(trace) == ToString(trace)

ResponseNew == [status |-> StatusOk, headers |-> <<>>, body |-> ""]

HasHeader(hs, name) == \E i \in 1..Len(hs) : hs[i][1] = name

\* Headers::set / Headers::set_raw: one entry per name, a second set of the
\* same name replaces the value in place.
SetHeader(hs, name, value) ==
    IF HasHeader(hs, name)
    THEN [i \in 1..Len(hs) |-> IF hs[i][1] = name THEN <<name, value>> ELSE hs[i]]
    ELSE Append(hs, <<name, value>>)

GetHeader(hs, name) ==
    IF HasHeader(hs, name)
    THEN <<(hs[CHOOSE i \in 1..Len(hs) : hs[i][1] = name])[2]>>
    ELSE <<>>

with_status(resp, status) == [resp EXCEPT !.status = status]
with_header(resp, name, value) == [resp EXCEPT !.headers = SetHeader(@, name, value)]
with_body(resp, body) == [resp EXCEPT !.body = body]

\* Option<(Response, u64)>, the item of the one-shot channel.
ReplyNone == [some |-> FALSE, resp |-> ResponseNew, bytes |-> 0]
ReplySome(resp, bytes) == [some |-> TRUE, resp |-> resp, bytes |-> bytes]

(***************************************************************************)
(* What the backend can deliver to a dispatcher.                           *)
(***************************************************************************)
\* cocaine::Error: a service error has a category and a code, every other
\* error has neither; text is what to_string() gives.
ServiceError(category, code, text) ==
    [kind |-> "service", category |-> category, code |-> code, text |-> text]

Errors ==
    { ServiceError(RetrySafeCategory, RetrySafeCode, "queue is full"),
      ServiceError(RetrySafeCategory, 2, "overseer error"),
      ServiceError(VicodynCategory, 1, "vicodyn error"),
      ServiceError(UnavailableCategory, UnavailableCode, "service is not available"),
      ServiceError(UnavailableCategory, 2, "not connected"),
      [kind |-> "io", category |-> 0, code |-> 0, text |-> "broken pipe"] }

\* A data frame: its bytes and what rmps::from_slice makes of them as a
\* ResponseMeta (ok = FALSE: the decoder's error message is in err).
Meta(bytes, code, hs) ==
    [bytes |-> bytes, ok |-> TRUE, code |-> code, headers |-> hs, err |-> ""]
Chunk(bytes) ==
    [bytes |-> bytes, ok |-> FALSE, code |-> 0, headers |-> <<>>, err |-> "invalid type"]

MetaFrames ==
    { Meta("M", 200, <<>>),
      Meta("N", 200, << <<ContentLengthName, "0">> >>),
      Meta("O", 201, << <<ContentLengthName, "5">> >>),
      Meta("P", 200, << <<XRequestIdName, "ffff">> >>),
      Meta("Q", 200, << <<"Set-Cookie", "a=1">>, <<"Set-Cookie", "b=2">> >>),
      Meta("R", 204, <<>>),
      Meta("S", 304, <<>>),
      Meta("T", 700, <<>>),
      Meta("U", 65736, <<>>) }

ChunkFrames == { Chunk("a") }

\* Any frame can come first; the frames after the first are the body chunks
\* and one frame that would decode as a ResponseMeta.
DataFrames == MetaFrames \cup ChunkFrames
BodyFrames == ChunkFrames \cup { Meta("M", 200, <<>>) }

\* Settings handed to the callback by the pool: verbose and the optional
\* timeout (<<>> = None), the timeout counted in 1/10000 s.  The timeout is
\* the one configured for the service and stays the same while the request
\* is in flight; verbose can differ from one attempt to the next.
Timeouts == { <<>>, <<15>> }
SettingsSet(timeout) == [verbose : BOOLEAN, timeout : {timeout}]

\* (timeout * 1000.0) as u64
TimeoutMillis(t) == (t * 1000) \div 10000

(***************************************************************************)
(* AppReadDispatch.                                                        *)
(***************************************************************************)
\* No dispatcher yet (the callback has not run).
NoError == [kind |-> "none", category |-> 0, code |-> 0, text |-> ""]
Frame(type, err) == [type |-> type, err |-> err]
\* The meta frame taken last, kept with what it held.
MetaFrame(frame) == [type |-> "meta", err |-> NoError, meta |-> frame]
\* The error frame taken last and, when history is kept, whether body was
\* Some when it came.
ErrorFrame(err, after_meta) == [type |-> "error", err |-> err, after_meta |-> after_meta]

NoDispatch ==
    [alive |-> FALSE, body |-> <<>>, response |-> <<>>, sent |-> <<>>,
     last |-> Frame("none", NoError)]

\* AppReadDispatch { tx, method, body: None, trace, response: Some(Response::new()) }
\* body and response are Options: <<>> = None, <<x>> = Some(x).  sent records
\* what went into tx, last the frame processed last.
NewDispatch ==
    [alive |-> TRUE, body |-> <<>>, response |-> <<ResponseNew>>, sent |-> <<>>,
     last |-> Frame("none", NoError)]

\* Finished with the dispatcher returned to the channel instead of None.
Finished_KeepsDispatching(d, reply, frame) ==
    [d EXCEPT !.sent = Append(@, reply), !.last = frame]

\* The dispatcher after it has consumed itself: tx.send(reply) and return None.
Finished(d, reply, frame) ==
    [alive |-> FALSE, body |-> <<>>, response |-> <<>>,
     sent |-> Append(d.sent, reply), last |-> frame]

\* StatusCode::try_from(meta.code as u16).unwrap_or(InternalServerError)
StatusFromCode(code) ==
    LET c16 == code % 65536
    IN  IF c16 >= 100 /\ c16 <= 599 THEN c16 ELSE InternalServerError

RECURSIVE SetRawAll(_, _)
SetRawAll(hs, metaHeaders) ==
    IF metaHeaders = <<>> THEN hs
    ELSE SetRawAll(SetHeader(hs, Head(metaHeaders)[1], Head(metaHeaders)[2]),
                   Tail(metaHeaders))

\* The error response every failure path of the dispatcher builds.
ErrorResponse(status, trace, body) ==
    with_body(with_header(with_status(ResponseNew, status),
                          XRequestIdName, FmtRequestId(trace)), body)

\* IsRetrySafe without the test of the code.
IsRetrySafe_AnyCode(err) ==
    err.kind = "service" /\ err.category = RetrySafeCategory

IsRetrySafe(err) ==
    err.kind = "service" /\ err.category = RetrySafeCategory /\ err.code = RetrySafeCode

(***************************************************************************)
(* AppWithSafeRetry.                                                       *)
(***************************************************************************)
\* make_headers with the span as the parent.
make_headers_ParentIsSpan(mapped, trace, span) ==
    Append(Append(Append(mapped, TraceId(trace)), SpanId(span)), ParentId(span))

\* make_headers: the mapped headers, then TraceId, SpanId and ParentId.
make_headers(mapped, trace, span) ==
    Append(Append(Append(mapped, TraceId(trace)), SpanId(span)), ParentId(trace))

\* The Event::Service make_future sends: the closure with what it captured
\* (attempt, headers, manual_verbose), and what the pool did with it.
\* st is "queued", "called" or "dropped"; settings_verbose and open are what
\* the closure saw and sent when it ran (the closure is consumed by the call:
\* of its captures only the headers and the attempt number are kept).
MakeEvent(attempt, hs, manual_verbose) ==
    [attempt |-> attempt, headers |-> hs, manual_verbose |-> manual_verbose,
     st |-> "queued", settings_verbose |-> FALSE, open |-> <<>>,
     opened |-> FALSE, wire |-> <<>>, finished |-> FALSE]

\* The outcomes of rand::random::<f64>() <= v under the tracing policy.
ManualDraws(policy) ==
    IF policy = "Auto" THEN {"none"} ELSE {"true", "false"}

NewChannel == [st |-> "empty", val |-> ReplyNone]

(***************************************************************************)
(* The HTTP request and AppRoute::extract_parameters.  A URI is a sequence *)
(* of one-character strings, so that the regular expression of AppRoute is *)
(* computed on it.                                                         *)
(***************************************************************************)
BadRequest == 400
GatewayTimeout == 504

TimedOutBody == "Timed out while waiting for response from the Cocaine"
\* the text has backticks where this string has apostrophes
IncompleteHeadersText ==
    "either none or both 'X-Cocaine-Service' and 'X-Cocaine-Event' headers must be specified"
\* "Invalid `{}` header value" with the default tracing header name
InvalidRequestIdText == "Invalid 'X-Request-Id' header value"
\* the text of the hyper error of a failed body read
BodyReadText == "unexpected end of body"
CanceledText == "canceled"

XPoweredByName == "X-Powered-By"
XCocaineAppName == "X-Cocaine-App"
\* the value of XPoweredBy::default()
PoweredBy == "Cocaine"

RECURSIVE Str(_)
\* &str of a sequence of characters
Str(chars) == IF chars = <<>> THEN "" ELSE chars[1] \o Str(Tail(chars))

Uris ==
    { <<"/", "e", "/", "p">>,              \* /e/p
      <<"/", "e", "/", "p", "/", "x">>,    \* /e/p/x
      <<"/", "e", "/", "p", "?", "q">>,    \* /e/p?q
      <<"/", "e", "?", "/", "p">>,         \* /e?/p
      <<"/", "/", "p">>,                   \* //p
      <<"/", "e">>,                        \* /e
      <<"e">>,                             \* e
      <<"/">> }

\* The raw tracing header: absent, or a value that parse_header accepts as
\* the u64 v, or one it rejects.
TracingHeaders ==
    { <<>> } \cup { <<[ok |-> TRUE, v |-> t]>> : t \in Traces }
             \cup { <<[ok |-> FALSE, v |-> 0]>> }

PolicyHeaders == { <<>>, <<"Manual">> }

HttpRequests ==
    [method : {"GET", "HEAD"}, uri : Uris,
     service : {<<>>, <<"app">>}, event : {<<>>, <<"ping">>},
     tracing : TracingHeaders, policy : PolicyHeaders]

\* The request once its body has been taken by req.body().
NoHttp ==
    [method |-> "GET", uri |-> <<>>, service |-> <<>>, event |-> <<>>,
     tracing |-> <<>>, policy |-> <<>>]

Slashes(u) == { i \in 1..Len(u) : u[i] = "/" }
Least(S) == CHOOSE x \in S : \A y \in S : x <= y

\* Regex "/([^/]*)/([^/?]*)(.*)" searched in u: the leftmost match starts at
\* the first slash, group 1 runs to the next slash, group 2 stops at the
\* next slash or question mark, group 3 is the rest.
regex_captures(u) ==
    IF Cardinality(Slashes(u)) < 2 THEN <<>>
    ELSE LET i == Least(Slashes(u))
             j == Least(Slashes(u) \ {i})
             stops == { k \in (j + 1)..Len(u) : u[k] \in {"/", "?"} }
             e == IF stops = {} THEN Len(u) + 1 ELSE Least(stops)
         IN  << [service |-> SubSeq(u, i + 1, j - 1),
                 event |-> SubSeq(u, j + 1, e - 1),
                 other |-> SubSeq(u, e, Len(u))] >>

ParamsNone == [kind |-> "None", service |-> "", event |-> "", uri |-> ""]
ParamsErr == [kind |-> "Err", service |-> "", event |-> "", uri |-> ""]
ParamsOk(service, event, uri) ==
    [kind |-> "Ok", service |-> service, event |-> event, uri |-> uri]

\* extract_parameters that lets a lone header fall through to the regex.
extract_parameters_LoneHeaderIgnored(req) ==
    IF req.service # <<>> /\ req.event # <<>>
    THEN ParamsOk(req.service[1], req.event[1], Str(req.uri))
    ELSE LET cap == regex_captures(req.uri)
         IN  IF cap = <<>> THEN ParamsNone
             ELSE LET other == cap[1].other
                      uri == IF other # <<>> /\ other[1] = "/"
                             THEN Str(other) ELSE "/" \o Str(other)
                  IN  ParamsOk(Str(cap[1].service), Str(cap[1].event), uri)

extract_parameters(req) ==
    IF req.service # <<>> /\ req.event # <<>>
    THEN ParamsOk(req.service[1], req.event[1], Str(req.uri))
    ELSE IF req.service # <<>> \/ req.event # <<>>
    THEN ParamsErr
    ELSE LET cap == regex_captures(req.uri)
         IN  IF cap = <<>> THEN ParamsNone
             ELSE LET other == cap[1].other
                      uri == IF other # <<>> /\ other[1] = "/"
                             THEN Str(other) ELSE "/" \o Str(other)
                  IN  ParamsOk(Str(cap[1].service), Str(cap[1].event), uri)

\* Error::code
ErrorCode(err) ==
    IF err \in {"IncompleteHeadersMatch", "InvalidRequestIdHeader"} THEN BadRequest
    ELSE InternalServerError

\* Display for Error
ErrorText(err) ==
    CASE err = "IncompleteHeadersMatch" -> IncompleteHeadersText
      [] err = "InvalidRequestIdHeader" -> InvalidRequestIdText
      [] err = "InvalidBodyRead" -> BodyReadText
      [] err = "Canceled" -> CanceledText

\* Response::new().with_status(err.code()).with_body(err.to_string())
RenderError(err) == with_body(with_status(ResponseNew, ErrorCode(err)), ErrorText(err))

\* From<TimedOut> for Response
TimedOutResponse == with_body(with_status(ResponseNew, GatewayTimeout), TimedOutBody)

\* A future of the HTTP layer: not resolved, resolved to a response, failed,
\* or dropped unresolved.
Pending == [st |-> "Pending", resp |-> ResponseNew]
Resolved(resp) == [st |-> "Resolved", resp |-> resp]
FailedFuture == [st |-> "Failed", resp |-> ResponseNew]
Dropped == [st |-> "Dropped", resp |-> ResponseNew]

\* AccessLogger: whether it has been constructed, and what was committed.
NoLog == [made |-> FALSE, commits |-> <<>>]
Commit(status, bytes, err) == [status |-> status, bytes |-> bytes, err |-> err]

NoRequest ==
    [service |-> "", event |-> "", uri |-> "", trace |-> 0, policy |-> "Auto",
     method |-> "GET", mapped |-> <<>>]

Idle == [st |-> "Idle", resp |-> ResponseNew, bytes |-> 0, err |-> ""]
Running == [st |-> "Running", resp |-> ResponseNew, bytes |-> 0, err |-> ""]
Completed(resp, bytes) == [st |-> "Completed", resp |-> resp, bytes |-> bytes, err |-> ""]
Failed(err) == [st |-> "Failed", resp |-> ResponseNew, bytes |-> 0, err |-> err]

TypeOK ==
    /\ request \in [service : STRING, event : STRING, uri : STRING,
                    trace : 0..MaxTrace, policy : {"Auto", "Manual"},
                    method : {"GET", "HEAD"}, mapped : MappedHeaders \cup {<<>>}]
    /\ attempts \in Nat
    /\ verbose \in BOOLEAN
    /\ current \in 0..Len(events)
    /\ result.st \in {"Idle", "Running", "Completed", "Failed", "Dropped"}
    /\ Len(chan) = Len(events)
    /\ Len(disp) = Len(events)
    /\ pool \in [timeout : Timeouts]
    /\ history \in BOOLEAN
    /\ \A k \in 1..Len(events) :
        /\ events[k].st \in {"queued", "called", "dropped"}
        /\ chan[k].st \in {"empty", "full", "closed", "taken"}
        /\ disp[k].alive \in BOOLEAN
    /\ http \in HttpRequests \cup {NoHttp}
    /\ pc \in {"accept", "body", "retry", "done", "unmatched"}
    /\ route \in {"none", "invoked", "incomplete", "unmatched"}
    /\ timer \in {"idle", "armed", "fired", "dropped"}
    /\ log.made \in BOOLEAN
    /\ inner.st \in {"Pending", "Resolved", "Failed", "Dropped"}
    /\ final.st \in {"Pending", "Resolved", "Failed"}
    /\ metrics \in [requests : Nat, c5xx : Nat]

\* The requests of the retry model: the URI names the service and the
\* event, or matches nothing; a lone X-Cocaine-Event header may be present.
MainUri == <<"/", "e", "/", "p">>
HttpMain == { h \in HttpRequests : h.uri \in {MainUri, <<"/">>} /\ h.service = <<>> }

\* The state when a request reaches the service made by create_service:
\* nothing of AppRoute or AppWithSafeRetry exists yet.
InitWith(requests, keep) ==
    /\ http \in requests
    /\ history = keep
    /\ pc = "accept"
    /\ route = "none"
    /\ timer = "idle"
    /\ log = NoLog
    /\ inner = Pending
    /\ final = Pending
    /\ metrics = [requests |-> 0, c5xx |-> 0]
    /\ request = NoRequest
    /\ spanDraws = <<>>
    /\ headers = <<>>
    /\ attempts = 0
    /\ verbose = FALSE
    /\ events = <<>>
    /\ chan = <<>>
    /\ disp = <<>>
    /\ pool \in [timeout : Timeouts]
    /\ current = 0
    /\ result = Idle

Init == InitWith(HttpMain, FALSE)

(***************************************************************************)
(* TimeoutMiddleware::call, ProxyService::call, AppRoute::process and      *)
(* AppRoute::invoke.                                                       *)
(***************************************************************************)
\* The then-closure of invoke applied to the result of the and_then chain:
\* what it returns and what it commits to the access log.
InvokeThen(res, service) ==
    IF res.st = "Completed"
    THEN [ok |-> TRUE,
          resp |-> with_header(with_header(res.resp, XPoweredByName, PoweredBy),
                               XCocaineAppName, service),
          err |-> "",
          commit |-> Commit(res.resp.status, res.bytes, <<>>)]
    ELSE [ok |-> FALSE, resp |-> ResponseNew, err |-> res.err,
          commit |-> Commit(InternalServerError, 0, <<res.err>>)]

\* OrElse that lets the error through to the HTTP layer.
OrElse_PassesError(out) == IF out.ok THEN Resolved(out.resp) ELSE FailedFuture

\* resp.or_else(|err| Ok(Response with err.code() and err.to_string()))
OrElse(out) == IF out.ok THEN Resolved(out.resp) ELSE Resolved(RenderError(out.err))

\* MarkResponse that counts client errors as well.
MarkResponse_ClientErrors(m, fut) ==
    IF fut.st = "Resolved" /\ fut.resp.status >= 400 /\ fut.resp.status <= 599
    THEN [m EXCEPT !.c5xx = @ + 1] ELSE m

\* and_then(|resp| { if resp.status().is_server_error() { c5xx.mark(1) } .. }):
\* the closure runs on a response only.
MarkResponse(m, fut) ==
    IF fut.st = "Resolved" /\ fut.resp.status >= 500 /\ fut.resp.status <= 599
    THEN [m EXCEPT !.c5xx = @ + 1] ELSE m

\* Select that gives the timeout's response when both futures are ready.
Select_BothReadyIsTimeout(upstream, timeout_ready) ==
    IF upstream.st \in {"Resolved", "Failed"} /\ ~timeout_ready THEN upstream
    ELSE IF timeout_ready THEN Resolved(TimedOutResponse)
    ELSE Pending

\* Select that polls the timeout before the upstream future.
Select_TimeoutFirst(upstream, timeout_ready) ==
    IF timeout_ready THEN Resolved(TimedOutResponse)
    ELSE IF upstream.st \in {"Resolved", "Failed"} THEN upstream
    ELSE Pending

\* upstream.select(timeout).map(|v| v.0): the upstream future is polled
\* first, the timeout only when the upstream is not ready.
Select(upstream, timeout_ready) ==
    IF upstream.st \in {"Resolved", "Failed"} THEN upstream
    ELSE IF timeout_ready THEN Resolved(TimedOutResponse)
    ELSE Pending

\* The future of AppRoute::process resolves to fut in this step, and with
\* it the future of ProxyService::call and the select of
\* TimeoutMiddleware::call.  The Timeout may have fired by the time of this
\* poll or not; it is dropped with the select, and timer keeps which.
Respond(fut) ==
    /\ inner' = fut
    /\ metrics' = MarkResponse(metrics, fut)
    /\ \E fired \in BOOLEAN :
        /\ final' = Select(inner', fired)
        /\ timer' = IF fired THEN "fired" ELSE "dropped"
    /\ pc' = "done"

\* The future of invoke resolves to res, the result of the and_then chain.
Resolve(res) ==
    LET out == InvokeThen(res, request.service)
    IN  /\ log' = [log EXCEPT !.commits = Append(@, out.commit)]
        /\ Respond(OrElse(out))
        /\ UNCHANGED <<http, route>>

\* A request enters TimeoutMiddleware::call: the Timeout is made, requests
\* is marked, AppRoute::process extracts the parameters and, with them,
\* invoke runs up to the read of the body.  Futures that are ready at once
\* are resolved by the first poll.
call ==
    /\ pc = "accept"
    /\ LET params == extract_parameters(http)
           counted == [metrics EXCEPT !.requests = @ + 1]
       IN  CASE params.kind = "None" ->
                  /\ route' = "unmatched"
                  /\ pc' = "unmatched"
                  /\ timer' = "armed"
                  /\ metrics' = counted
                  /\ UNCHANGED <<http, request, log, inner, final>>
             [] params.kind = "Err" ->
                  LET fut == Resolved(RenderError("IncompleteHeadersMatch"))
                  IN  /\ route' = "incomplete"
                      /\ http' = NoHttp
                      /\ inner' = fut
                      /\ metrics' = MarkResponse(counted, fut)
                      /\ final' = Select(inner', FALSE)
                      /\ timer' = "dropped"
                      /\ pc' = "done"
                      /\ UNCHANGED <<request, log>>
             [] params.kind = "Ok" /\ http.tracing # <<>> /\ ~http.tracing[1].ok ->
                  LET fut == OrElse([ok |-> FALSE, resp |-> ResponseNew,
                                     err |-> "InvalidRequestIdHeader"])
                  IN  /\ route' = "invoked"
                      /\ http' = NoHttp
                      /\ inner' = fut
                      /\ metrics' = MarkResponse(counted, fut)
                      /\ final' = Select(inner', FALSE)
                      /\ timer' = "dropped"
                      /\ pc' = "done"
                      /\ UNCHANGED <<request, log>>
             [] OTHER ->
                  /\ route' = "invoked"
                  /\ \E random \in Traces :
                        request' = [service |-> params.service,
                                    event |-> params.event,
                                    uri |-> params.uri,
                                    trace |-> IF http.tracing # <<>>
                                              THEN http.tracing[1].v ELSE random,
                                    policy |-> IF http.policy # <<>>
                                               THEN http.policy[1] ELSE "Auto",
                                    method |-> http.method,
                                    mapped |-> CHOOSE m \in MappedHeaders : TRUE]
                  /\ log' = [made |-> TRUE, commits |-> <<>>]
                  /\ http' = NoHttp
                  /\ timer' = "armed"
                  /\ metrics' = counted
                  /\ pc' = "body"
                  /\ UNCHANGED <<inner, final>>
    /\ UNCHANGED <<attempts, headers, verbose, current, result, events, chan, disp, pool, history,
                   spanDraws>>

\* concat2 yields the body: AppWithSafeRetry::new makes the headers, sets
\* attempts to 1 and sends the first attempt to the pool.
BodyRead ==
    /\ pc = "body"
    /\ \E span \in Spans :
        /\ spanDraws' = <<span>>
        /\ headers' = make_headers(request.mapped, request.trace, span)
    /\ attempts' = 1
    /\ \E manual \in ManualDraws(request.policy) :
        events' = <<MakeEvent(attempts', headers', manual)>>
    /\ chan' = <<NewChannel>>
    /\ disp' = <<NoDispatch>>
    /\ current' = 1
    /\ result' = Running
    /\ pc' = "retry"
    /\ UNCHANGED <<request, verbose, pool, history, http, route, timer, log, inner, final, metrics>>

\* concat2 fails: AppWithSafeRetry is never made.
BodyFail ==
    /\ pc = "body"
    /\ Resolve(Failed("InvalidBodyRead"))
    /\ UNCHANGED <<request, attempts, headers, verbose, current, result, events, chan, disp,
                   pool, history, spanDraws>>

(***************************************************************************)
(* The closure of Event::Service, run by the pool with a service and the   *)
(* pool's settings.                                                        *)
(***************************************************************************)
\* if let Some(true) = manual_verbose { settings.verbose = true; }
SettingsVerbose(manual_verbose, settings) ==
    IF manual_verbose = "true" THEN TRUE ELSE settings.verbose

\* if settings.verbose && attempt == 1 { verbose.store(true) }
LatchAfter(latch, settings_verbose, attempt) ==
    IF settings_verbose /\ attempt = 1 THEN TRUE ELSE latch

\* AttemptHeaders with TraceBit taken from the settings of the attempt.
AttemptHeaders_BitFromSettings(hs, latch, settings_verbose, timeout) ==
    LET h1 == IF settings_verbose THEN Append(hs, TraceBit(TRUE)) ELSE hs
    IN  IF timeout # <<>>
        THEN Append(h1, <<"request_timeout", pack_u64(TimeoutMillis(timeout[1]))>>)
        ELSE h1

\* The headers of the open frame: the captured ones, TraceBit when the latch
\* is set, request_timeout when the settings have a timeout.
AttemptHeaders(hs, latch, settings_verbose, timeout) ==
    LET h1 == IF latch THEN Append(hs, TraceBit(TRUE)) ELSE hs
    IN  IF timeout # <<>>
        THEN Append(h1, <<"request_timeout", pack_u64(TimeoutMillis(timeout[1]))>>)
        ELSE h1

\* cocaine::Request::new(type, args).add_headers(headers)
WireFrame(type, args, hs) == [type |-> type, args |-> args, headers |-> hs]

\* The RequestMeta of the request: request.frame, sent as the payload.
RequestMetaOf(req) == [method |-> req.method, uri |-> req.uri, version |-> "1.1"]

\* CallFrames that sends payload and close whether the open succeeded or not.
CallFrames_SendsRegardless(req, hs, opened) ==
    (IF opened THEN <<WireFrame(0, <<req.event>>, hs)>> ELSE <<>>)
        \o <<WireFrame(0, <<RequestMetaOf(req)>>, <<>>), WireFrame(2, <<>>, <<>>)>>

\* The frames service.call(..).and_then(..) puts on the wire: the open
\* frame when the call succeeds, and then, in the and_then closure, the
\* payload and the close; nothing when the call fails.
CallFrames(req, hs, opened) ==
    IF opened
    THEN <<WireFrame(0, <<req.event>>, hs),
           WireFrame(0, <<RequestMetaOf(req)>>, <<>>),
           WireFrame(2, <<>>, <<>>)>>
    ELSE <<>>

\* The closure run by the pool; opened tells whether service.call succeeds.
\* .then(|_| Ok(())) finishes the future of the closure successfully either
\* way.  A call that failed leaves its dispatcher to be discarded.
func(k, settings, opened) ==
    /\ k \in 1..Len(events)
    /\ events[k].st = "queued"
    /\ LET ev == events[k]
           sv == SettingsVerbose(ev.manual_verbose, settings)
           latch == LatchAfter(verbose, sv, ev.attempt)
       IN  /\ verbose' = latch
           /\ events' = [events EXCEPT ![k] =
                  [ev EXCEPT !.st = "called", !.manual_verbose = "none",
                             !.settings_verbose = sv,
                             !.open = AttemptHeaders(ev.headers, latch, sv, settings.timeout),
                             !.opened = opened,
                             !.wire = CallFrames(request,
                                         AttemptHeaders(ev.headers, latch, sv,
                                                        settings.timeout), opened),
                             !.finished = TRUE]]
           /\ disp' = [disp EXCEPT ![k] = NewDispatch]
    /\ UNCHANGED <<request, attempts, headers, current, result, chan, pool, history, spanDraws, outer>>

\* The pool gives the event up without running the closure: tx is dropped
\* with it and the receiver sees Canceled.
PoolDrop(k) ==
    /\ k \in 1..Len(events)
    /\ events[k].st = "queued"
    /\ events' = [events EXCEPT ![k].st = "dropped"]
    /\ chan' = [chan EXCEPT ![k] =
           IF @.st = "empty" THEN [st |-> "closed", val |-> ReplyNone] ELSE @]
    /\ UNCHANGED <<request, attempts, headers, verbose, current, result, disp, pool, history, spanDraws, outer>>

(***************************************************************************)
(* AppReadDispatch::process and AppReadDispatch::discard.                  *)
(***************************************************************************)
\* tx.send(reply): the value reaches the receiver unless the receiver is
\* gone; the result of send is dropped either way.
Send(k, reply) ==
    chan' = [chan EXCEPT ![k] =
        IF @.st = "empty" THEN [st |-> "full", val |-> reply] ELSE @]

\* Ok(Some(data)), body is None, the data decode as a ResponseMeta.
ApplyMeta(d, frame, trace) ==
    LET resp == d.response[1]
        r1 == with_status(resp, StatusFromCode(frame.code))
        r2 == with_header(r1, XRequestIdName, FmtRequestId(trace))
        r3 == [r2 EXCEPT !.headers = SetRawAll(@, frame.headers)]
    IN  [d EXCEPT !.response = <<r3>>, !.body = <<"">>, !.last = MetaFrame(frame)]

ProcessMeta(k, frame) ==
    /\ k \in 1..Len(disp)
    /\ disp[k].alive
    /\ events[k].opened
    /\ disp[k].body = <<>>
    /\ frame.ok
    /\ disp' = [disp EXCEPT ![k] = ApplyMeta(@, frame, request.trace)]
    /\ UNCHANGED <<request, attempts, headers, verbose, current, result, events, chan, pool, history, spanDraws, outer>>

\* Ok(Some(data)), body is None, the data do not decode.
ProcessUndecodable(k, frame) ==
    /\ k \in 1..Len(disp)
    /\ disp[k].alive
    /\ events[k].opened
    /\ disp[k].body = <<>>
    /\ ~frame.ok
    /\ LET reply == ReplySome(ErrorResponse(InternalServerError, request.trace, frame.err),
                              Len(frame.err))
       IN  /\ Send(k, reply)
           /\ disp' = [disp EXCEPT ![k] = Finished(@, reply, Frame("undecodable", NoError))]
    /\ UNCHANGED <<request, attempts, headers, verbose, current, result, events, pool, history, spanDraws, outer>>

\* AppendBody that puts the new bytes in front of the buffered ones.
AppendBody_Prepends(d, frame) ==
    [d EXCEPT !.body = <<frame.bytes \o @[1]>>, !.last = Frame("chunk", NoError)]

\* Ok(Some(data)), body is Some: the bytes are appended.
AppendBody(d, frame) ==
    [d EXCEPT !.body = <<@[1] \o frame.bytes>>, !.last = Frame("chunk", NoError)]

ProcessChunk(k, frame) ==
    /\ k \in 1..Len(disp)
    /\ disp[k].alive
    /\ events[k].opened
    /\ disp[k].body # <<>>
    /\ Len(disp[k].body[1]) + Len(frame.bytes) <= MaxBody
    /\ disp' = [disp EXCEPT ![k] = AppendBody(@, frame)]
    /\ UNCHANGED <<request, attempts, headers, verbose, current, result, events, chan, pool, history, spanDraws, outer>>

\* resp.headers().get::<ContentLength>(): the length when the header is there
\* and its value is a number.
ParseContentLength(hs) ==
    LET raw == GetHeader(hs, ContentLengthName)
    IN  IF raw = <<>> THEN <<>>
        ELSE IF raw[1] = "0" THEN <<0>>
        ELSE IF raw[1] = "5" THEN <<5>>
        ELSE <<>>

\* CloseReply that sends the body in answer to HEAD as well.
CloseReply_HeadSendsBody(method, resp, body) ==
    IF resp.status \in {NoContent, NotModified} THEN ReplySome(resp, 0)
    ELSE LET cl == ParseContentLength(resp.headers)
             has_body == (body # "") /\ (IF cl # <<>> THEN cl[1] > 0 ELSE TRUE)
         IN  IF has_body THEN ReplySome(with_body(resp, body), Len(body))
             ELSE ReplySome(resp, 0)

\* Ok(None) with body = Some(body): the response and the size reported.
CloseReply(method, resp, body) ==
    IF method = "HEAD" THEN ReplySome(resp, 0)
    ELSE IF resp.status \in {NoContent, NotModified} THEN ReplySome(resp, 0)
    ELSE LET cl == ParseContentLength(resp.headers)
             has_body == (body # "") /\ (IF cl # <<>> THEN cl[1] > 0 ELSE TRUE)
         IN  IF has_body THEN ReplySome(with_body(resp, body), Len(body))
             ELSE ReplySome(resp, 0)

\* CloseBeforeMetaReply that reports no bytes.
CloseBeforeMetaReply_ZeroSize(trace) ==
    ReplySome(ErrorResponse(InternalServerError, trace, CloseWithoutMeta), 0)

\* Ok(None) with body = None.
CloseBeforeMetaReply(trace) ==
    ReplySome(ErrorResponse(InternalServerError, trace, CloseWithoutMeta),
              Len(CloseWithoutMeta))

ProcessClose(k) ==
    /\ k \in 1..Len(disp)
    /\ disp[k].alive
    /\ events[k].opened
    /\ LET d == disp[k]
           reply == IF d.body # <<>>
                    THEN CloseReply(request.method, d.response[1], d.body[1])
                    ELSE CloseBeforeMetaReply(request.trace)
       IN  /\ Send(k, reply)
           /\ disp' = [disp EXCEPT ![k] = Finished(@, reply, Frame("close", NoError))]
    /\ UNCHANGED <<request, attempts, headers, verbose, current, result, events, pool, history, spanDraws, outer>>

\* Err(err): None for the retry-safe service error, a 500 for every other.
ErrorReply(err, trace) ==
    IF IsRetrySafe(err) THEN ReplyNone
    ELSE LET resp == ErrorResponse(InternalServerError, trace, err.text)
             tagged == IF err.kind = "service" /\ err.category = VicodynCategory
                       THEN with_header(resp, XErrorGeneratedByName, "vicodyn")
                       ELSE resp
         IN  ReplySome(tagged, Len(err.text))

\* ProcessError that gives up the retry once the meta frame has been taken.
ProcessError_SomeAfterMeta(k, err) ==
    /\ k \in 1..Len(disp)
    /\ disp[k].alive
    /\ events[k].opened
    /\ LET reply == IF disp[k].body # <<>>
                    THEN ReplySome(ErrorResponse(InternalServerError, request.trace,
                                                 err.text), Len(err.text))
                    ELSE ErrorReply(err, request.trace)
       IN  /\ Send(k, reply)
           /\ disp' = [disp EXCEPT ![k] =
                  Finished(@, reply, ErrorFrame(err, history /\ disp[k].body # <<>>))]
    /\ UNCHANGED <<request, attempts, headers, verbose, current, result, events, pool, history, spanDraws, outer>>

ProcessError(k, err) ==
    /\ k \in 1..Len(disp)
    /\ disp[k].alive
    /\ events[k].opened
    /\ LET reply == ErrorReply(err, request.trace)
       IN  /\ Send(k, reply)
           /\ disp' = [disp EXCEPT ![k] =
                  Finished(@, reply, ErrorFrame(err, history /\ disp[k].body # <<>>))]
    /\ UNCHANGED <<request, attempts, headers, verbose, current, result, events, pool, history, spanDraws, outer>>

\* DiscardReply that answers the retry-safe error the way process does.
DiscardReply_RetrySafeIsNone(err, trace) ==
    IF IsRetrySafe(err) THEN ReplyNone
    ELSE ReplySome(ErrorResponse(InternalServerError, trace, err.text), Len(err.text))

\* AppReadDispatch::discard: the reply sent.
DiscardReply(err, trace) ==
    LET status == IF err.kind = "service"
                  THEN IF err.category = UnavailableCategory /\ err.code = UnavailableCode
                       THEN ServiceUnavailable
                       ELSE InternalServerError
                  ELSE InternalServerError
    IN  ReplySome(ErrorResponse(status, trace, err.text), Len(err.text))

discard(k, err) ==
    /\ k \in 1..Len(disp)
    /\ disp[k].alive
    /\ LET reply == DiscardReply(err, request.trace)
       IN  /\ Send(k, reply)
           /\ disp' = [disp EXCEPT ![k] = Finished(@, reply, Frame("discard", err))]
    /\ UNCHANGED <<request, attempts, headers, verbose, current, result, events, pool, history, spanDraws, outer>>

(***************************************************************************)
(* AppWithSafeRetry::poll.  The task is polled when the one-shot channel   *)
(* of the current attempt has resolved; a poll that finds it NotReady puts *)
(* the future back and changes nothing.                                    *)
(***************************************************************************)
\* PollFuture with an unresolved channel read as None.
PollFuture_NotReadyIsNone(c) ==
    IF c.st = "full" THEN [kind |-> "Ready", val |-> c.val]
    ELSE IF c.st = "closed" THEN [kind |-> "Err", val |-> ReplyNone]
    ELSE [kind |-> "Ready", val |-> ReplyNone]

\* PollFuture with a dropped sender read as a reply of None.
PollFuture_ClosedIsNone(c) ==
    IF c.st = "full" THEN [kind |-> "Ready", val |-> c.val]
    ELSE IF c.st = "closed" THEN [kind |-> "Ready", val |-> ReplyNone]
    ELSE [kind |-> "NotReady", val |-> ReplyNone]

\* rx.map_err(|Canceled| Error::Canceled) polled on channel c.
PollFuture(c) ==
    IF c.st = "full" THEN [kind |-> "Ready", val |-> c.val]
    ELSE IF c.st = "closed" THEN [kind |-> "Err", val |-> ReplyNone]
    ELSE [kind |-> "NotReady", val |-> ReplyNone]

\* The receiver is consumed by the poll that found it resolved, or dropped
\* with the future that owned it.
Taken == [st |-> "taken", val |-> ReplyNone]

\* CanRetry with <= for <, and with the comparison turned round.
CanRetry_AtLimit(n, lim) == n <= lim
CanRetry_Inverted(n, lim) == n > lim

\* if self.attempts < self.limit
CanRetry(n, lim) == n < lim

\* RetryLimitResponse without the X-Request-Id header.
RetryLimitResponse_NoRequestId(trace) ==
    with_body(with_status(ResponseNew, InternalServerError), RetryLimitBody)

RetryLimitResponse(trace) ==
    with_body(with_header(with_status(ResponseNew, InternalServerError),
                          XRequestIdName, FmtRequestId(trace)), RetryLimitBody)

\* Ok(Async::Ready(Some((res, bytes))))
PollSome ==
    /\ result.st = "Running"
    /\ current # 0
    /\ LET p == PollFuture(chan[current])
       IN  /\ p.kind = "Ready"
           /\ p.val.some
           /\ result' = Completed(p.val.resp, p.val.bytes)
    /\ chan' = [chan EXCEPT ![current] = Taken]
    /\ current' = 0
    /\ UNCHANGED <<request, attempts, headers, verbose, events, disp, pool, history, spanDraws>>
    /\ Resolve(result')

\* Ok(Async::Ready(None)) below the limit: make_future runs with the old
\* value of attempts, then attempts is incremented and the new future is
\* polled (it is NotReady: its event has only been queued).
PollRetry ==
    /\ result.st = "Running"
    /\ current # 0
    /\ LET p == PollFuture(chan[current])
       IN  /\ p.kind = "Ready"
           /\ ~p.val.some
    /\ CanRetry(attempts, limit)
    /\ \E manual \in ManualDraws(request.policy) :
        events' = Append(events, MakeEvent(attempts, headers, manual))
    /\ chan' = Append([chan EXCEPT ![current] = Taken], NewChannel)
    /\ disp' = Append(disp, NoDispatch)
    /\ attempts' = attempts + 1
    /\ current' = Len(events) + 1
    /\ UNCHANGED <<request, headers, verbose, result, pool, history, spanDraws, outer>>

\* Ok(Async::Ready(None)) at the limit.
PollLimit ==
    /\ result.st = "Running"
    /\ current # 0
    /\ LET p == PollFuture(chan[current])
       IN  /\ p.kind = "Ready"
           /\ ~p.val.some
    /\ ~CanRetry(attempts, limit)
    /\ result' = Completed(RetryLimitResponse(request.trace), Len(RetryLimitBody))
    /\ chan' = [chan EXCEPT ![current] = Taken]
    /\ current' = 0
    /\ UNCHANGED <<request, attempts, headers, verbose, events, disp, pool, history, spanDraws>>
    /\ Resolve(result')

\* Err(err)
PollErr ==
    /\ result.st = "Running"
    /\ current # 0
    /\ PollFuture(chan[current]).kind = "Err"
    /\ result' = Failed("Canceled")
    /\ chan' = [chan EXCEPT ![current] = Taken]
    /\ current' = 0
    /\ UNCHANGED <<request, attempts, headers, verbose, events, disp, pool, history, spanDraws>>
    /\ Resolve(result')

\* Deadline with a Timeout that a retry disarms.
Deadline_FirstAttemptOnly ==
    /\ attempts <= 1
    /\ timer = "armed"
    /\ pc \in {"body", "retry"}
    /\ pc = "retry" => PollFuture(chan[current]).kind = "NotReady"
    /\ final' = Select(inner, TRUE)
    /\ inner' = Dropped
    /\ timer' = "fired"
    /\ pc' = "done"
    /\ IF pc = "retry"
       THEN /\ result' = [result EXCEPT !.st = "Dropped"]
            /\ chan' = [chan EXCEPT ![current] = Taken]
            /\ current' = 0
       ELSE UNCHANGED <<result, chan, current>>
    /\ UNCHANGED <<request, attempts, headers, verbose, events, disp, pool, history, spanDraws,
                   http, route, log, metrics>>

\* The select is polled with the Timeout fired and the upstream future not
\* ready: it resolves to the response made from TimedOut and the upstream
\* future is dropped, and with it the body stream or AppWithSafeRetry and
\* the receiver of its current attempt.  Events already sent to the pool
\* stay with the pool.
Deadline ==
    /\ timer = "armed"
    /\ pc \in {"body", "retry"}
    /\ pc = "retry" => PollFuture(chan[current]).kind = "NotReady"
    /\ final' = Select(inner, TRUE)
    /\ inner' = Dropped
    /\ timer' = "fired"
    /\ pc' = "done"
    /\ IF pc = "retry"
       THEN /\ result' = [result EXCEPT !.st = "Dropped"]
            /\ chan' = [chan EXCEPT ![current] = Taken]
            /\ current' = 0
       ELSE UNCHANGED <<result, chan, current>>
    /\ UNCHANGED <<request, attempts, headers, verbose, events, disp, pool, history, spanDraws,
                   http, route, log, metrics>>

Next ==
    \/ call
    \/ BodyRead
    \/ BodyFail
    \/ Deadline
    \/ \E k \in 1..Len(events), settings \in SettingsSet(pool.timeout), opened \in BOOLEAN :
            func(k, settings, opened)
    \/ \E k \in 1..Len(events) : PoolDrop(k)
    \/ \E k \in 1..Len(disp), frame \in DataFrames : ProcessMeta(k, frame)
    \/ \E k \in 1..Len(disp), frame \in DataFrames : ProcessUndecodable(k, frame)
    \/ \E k \in 1..Len(disp), frame \in BodyFrames : ProcessChunk(k, frame)
    \/ \E k \in 1..Len(disp) : ProcessClose(k)
    \/ \E k \in 1..Len(disp), err \in Errors : ProcessError(k, err)
    \/ \E k \in 1..Len(disp), err \in Errors : discard(k, err)
    \/ PollSome
    \/ PollRetry
    \/ PollLimit
    \/ PollErr

Spec == Init /\ [][Next]_vars

\* AppRoute::process over every request, up to the read of the body.
InitRoute == InitWith(HttpRequests, FALSE)
NextRoute == call \/ BodyRead \/ BodyFail
SpecRoute == InitRoute /\ [][NextRoute]_vars

\* One GET request without tracing and policy headers to a pool without a
\* timeout, with the history of the error frames kept.
StreamRequests ==
    { h \in HttpMain : /\ h.method = "GET" /\ h.uri = MainUri /\ h.event = <<>>
                       /\ h.tracing = <<>> /\ h.policy = <<>> }
InitStream == InitWith(StreamRequests, TRUE) /\ pool.timeout = <<>>
SpecStream == InitStream /\ [][Next]_vars

(***************************************************************************)
(* Properties.                                                             *)
(***************************************************************************)
Called(k) == events[k].st = "called"

\* The current attempt has resolved to None and this step is the poll that
\* consumes it.
PollsNone ==
    /\ result.st = "Running"
    /\ current # 0
    /\ chan[current].st = "full"
    /\ ~chan[current].val.some
    /\ chan'[current].st = "taken"

\* C1: from AppWithSafeRetry::new on, attempts stays within 1..limit and the
\* number of Event::Service events posted to the pool for the request is at
\* least one and never exceeds limit.
C1_AttemptsWithinLimit ==
    /\ attempts <= limit
    /\ Len(events) <= limit
    /\ result.st # "Idle" => (attempts >= 1 /\ Len(events) >= 1)

C1_Witness ==
    /\ attempts = limit
    /\ Len(events) = limit
    /\ result.st = "Completed"
    /\ \A k \in 1..Len(events) : disp[k].sent = <<ReplyNone>>

\* C2: the dispatcher of a backend call sends on its one-shot channel at
\* most once, nothing while it is still consuming frames, and exactly once
\* when the call has ended by close, error, decode failure or discard.
C2_ReplyExactlyOnce ==
    \A k \in 1..Len(disp) :
        /\ Len(disp[k].sent) <= 1
        /\ disp[k].alive => disp[k].sent = <<>>
        /\ (Called(k) /\ ~disp[k].alive) => Len(disp[k].sent) = 1
        /\ disp[k].last.type \in {"close", "error", "undecodable", "discard"}
              => Len(disp[k].sent) = 1
        /\ ~Called(k) => disp[k].sent = <<>>

C2_Witness ==
    /\ Len(disp) = 2
    /\ disp[1].last.type = "error" /\ Len(disp[1].sent) = 1
    /\ disp[2].last.type = "discard" /\ Len(disp[2].sent) = 1
    /\ chan[2].st = "full"

\* C3: a poll that finds the attempt resolved to None while attempts < limit
\* increments attempts by one, posts exactly one new event and leaves the
\* future running on the new attempt.
C3_RetryBelowLimit ==
    [][(PollsNone /\ attempts < limit) =>
            /\ attempts' = attempts + 1
            /\ Len(events') = Len(events) + 1
            /\ SubSeq(events', 1, Len(events)) = events
            /\ events'[Len(events')].st = "queued"
            /\ current' = Len(events')
            /\ chan'[current'].st = "empty"
            /\ result' = result
            /\ result'.st = "Running"]_vars

C3_Witness ==
    /\ attempts = 2
    /\ Len(events) = 2
    /\ events[2].st = "queued"
    /\ disp[1].sent = <<ReplyNone>>
    /\ result.st = "Running"

\* C4: a poll that finds the attempt resolved to None while attempts = limit
\* completes with status 500, the body "Retry limit exceeded: queue is full",
\* X-Request-Id of the trace and the body length as size, and posts nothing;
\* it comes after exactly limit = 3 attempts that all ended with the
\* retry-safe service error.
C4_RetryLimitExceeded ==
    [][(PollsNone /\ attempts = limit) =>
            /\ result'.st = "Completed"
            /\ result'.resp.status = 500
            /\ result'.resp.body = "Retry limit exceeded: queue is full"
            /\ GetHeader(result'.resp.headers, "X-Request-Id") = <<FmtRequestId(request.trace)>>
            /\ result'.bytes = Len(result'.resp.body)
            /\ result'.bytes = 35
            /\ events' = events
            /\ current' = 0
            /\ Len(events) = 3
            /\ \A k \in 1..3 :
                /\ disp[k].sent = <<ReplyNone>>
                /\ disp[k].last.type = "error"
                /\ disp[k].last.err.category = 21247
                /\ disp[k].last.err.code = 1]_vars

C4_Witness ==
    /\ result.st = "Completed"
    /\ result.resp.body = RetryLimitBody
    /\ Len(events) = 3
    /\ attempts = 3

\* C5: the dispatcher replies None exactly when the frame it processed is a
\* service error of category 0x52ff and code 1; every other error frame gets
\* Some(response) with status 500.
C5_NoneOnlyOnRetrySafeError ==
    \A k \in 1..Len(disp) :
        disp[k].sent # <<>> =>
            LET reply == disp[k].sent[1]
                frame == disp[k].last
                queueFull == /\ frame.type = "error"
                             /\ frame.err.kind = "service"
                             /\ frame.err.category = 21247
                             /\ frame.err.code = 1
            IN  /\ ~reply.some <=> queueFull
                /\ (frame.type = "error" /\ ~queueFull) =>
                        reply.some /\ reply.resp.status = 500

C5_Witness ==
    /\ Len(disp) = 2
    /\ disp[1].sent = <<ReplyNone>>
    /\ disp[2].last.type = "error"
    /\ disp[2].last.err.category = 21247
    /\ disp[2].last.err.code = 2
    /\ disp[2].sent # <<>>
    /\ disp[2].sent[1].some

\* C6: at most one attempt is outstanding, it is the one the future holds,
\* and an attempt is posted only after the one before has resolved to None.
C6_SequentialAttempts ==
    /\ Cardinality({k \in 1..Len(chan) : chan[k].st # "taken"}) <= 1
    /\ \A k \in 1..Len(chan) : chan[k].st # "taken" => k = current
    /\ \A k \in 2..Len(events) :
        /\ chan[k - 1].st = "taken"
        /\ disp[k - 1].sent = <<ReplyNone>>
        /\ ~disp[k - 1].alive

C6_Witness ==
    /\ Len(events) = 3
    /\ Called(3)
    /\ disp[3].alive
    /\ chan[3].st = "empty"

\* C7: every attempt carries TraceId and ParentId headers that both hold the
\* trace of the request.
C7_TraceAndParentAreTrace ==
    LET packed == <<pack_u64(request.trace)>>
    IN  \A k \in 1..Len(events) :
            /\ GetHeader(events[k].headers, "trace_id") = packed
            /\ GetHeader(events[k].headers, "parent_id") = packed
            /\ Called(k) =>
                /\ GetHeader(events[k].open, "trace_id") = packed
                /\ GetHeader(events[k].open, "parent_id") = packed

C7_Witness ==
    /\ Len(events) = 3
    /\ \A k \in 1..3 : Called(k)
    /\ spanDraws[1] # request.trace

\* C8: the SpanId of every attempt comes from a random draw made for that
\* attempt (the k-th attempt carries the k-th draw).
C8_FreshSpanPerAttempt ==
    \A k \in 1..Len(events) :
        /\ Len(spanDraws) >= k
        /\ GetHeader(events[k].headers, "span_id") = <<pack_u64(spanDraws[k])>>

\* C9: when the first attempt observed verbose = true the latch is set and
\* every attempt that runs carries TraceBit(true).
C9_LatchedTraceBit ==
    (Len(events) >= 1 /\ Called(1) /\ events[1].settings_verbose) =>
        /\ verbose
        /\ \A k \in 1..Len(events) :
            Called(k) => GetHeader(events[k].open, "trace_bit") = << <<1>> >>

C9_Witness ==
    /\ Len(events) = 3
    /\ \A k \in 1..3 : Called(k)
    /\ events[1].settings_verbose
    /\ ~events[2].settings_verbose
    /\ ~events[3].settings_verbose

\* C10: when the first attempt observed verbose = false under the Auto
\* policy the latch stays false and no attempt carries TraceBit.
C10_LatchOnlyByFirstAttempt ==
    (request.policy = "Auto" /\ Len(events) >= 1 /\ Called(1)
        /\ ~events[1].settings_verbose) =>
        /\ ~verbose
        /\ \A k \in 1..Len(events) :
            Called(k) => ~HasHeader(events[k].open, "trace_bit")

\* C11: the future of TimeoutMiddleware::call resolves either with the
\* future of the inner service, and then to exactly what that resolved to,
\* or, when the Timeout has fired and the inner future is not ready, to a
\* response of status 504 with the body "Timed out while waiting for
\* response from the Cocaine".
C11_TimeoutOrInner ==
    [][(final.st = "Pending" /\ final'.st # "Pending") =>
            IF inner'.st \in {"Resolved", "Failed"}
            THEN final' = inner'
            ELSE /\ timer' = "fired"
                 /\ inner.st = "Pending"
                 /\ inner'.st = "Dropped"
                 /\ final'.st = "Resolved"
                 /\ final'.resp.status = 504
                 /\ final'.resp.body
                        = "Timed out while waiting for response from the Cocaine"
                 /\ final'.resp.headers = <<>>]_vars

\* The deadline won while the second attempt was outstanding.
C11_Witness ==
    /\ final.st = "Resolved"
    /\ final.resp.status = 504
    /\ final.resp.body = TimedOutBody
    /\ inner.st = "Dropped"
    /\ Len(events) = 2

\* C12: once the 504 has been produced no attempt is posted to the pool and
\* no backend call is opened for the request.
C12_NothingAfterTimeout ==
    [][(final.st = "Resolved" /\ inner.st = "Dropped") =>
            /\ Len(events') = Len(events)
            /\ \A k \in 1..Len(events) :
                  events[k].st = "queued" => events'[k].st # "called"]_vars

\* C13: a request that AppRoute matched never gives a failed future: when it
\* ends it has resolved to a response, and each Error is rendered with its
\* status (400 for IncompleteHeadersMatch and InvalidRequestIdHeader, 500 for
\* InvalidBodyRead and Canceled) and its message as body.
C13_ErrorsRendered ==
    route \in {"invoked", "incomplete"} =>
        /\ inner.st # "Failed"
        /\ final.st # "Failed"
        /\ pc = "done" => final.st = "Resolved"
        /\ route = "incomplete" =>
              final = Resolved([status |-> 400, headers |-> <<>>,
                                body |-> IncompleteHeadersText])
        /\ (route = "invoked" /\ pc = "done" /\ ~log.made) =>
              final = Resolved([status |-> 400, headers |-> <<>>,
                                body |-> InvalidRequestIdText])
        /\ (log.commits # <<>> /\ log.commits[1].err = <<"InvalidBodyRead">>) =>
              final = Resolved([status |-> 500, headers |-> <<>>,
                                body |-> BodyReadText])
        /\ (log.commits # <<>> /\ log.commits[1].err = <<"Canceled">>) =>
              final = Resolved([status |-> 500, headers |-> <<>>,
                                body |-> "canceled"])

C13_Witness ==
    /\ route = "invoked"
    /\ pc = "done"
    /\ result.st = "Idle"
    /\ log.commits # <<>>
    /\ log.commits[1].err = <<"InvalidBodyRead">>
    /\ final.st = "Resolved"
    /\ final.resp.status = 500

\* C14: an invocation started by AppRoute::invoke commits its access logger
\* exactly once however it ends: (status, bytes, None) when the retry future
\* completed, (500, 0, Some(err)) on every failure; never twice, never not
\* at all.
C14_LogCommittedOnce ==
    /\ Len(log.commits) <= 1
    /\ (route = "invoked" /\ pc = "done") =>
          /\ Len(log.commits) = 1
          /\ IF result.st = "Completed"
             THEN log.commits[1] = Commit(result.resp.status, result.bytes, <<>>)
             ELSE /\ log.commits[1].status = 500
                  /\ log.commits[1].bytes = 0
                  /\ log.commits[1].err # <<>>

\* The dispatcher of attempt k consumes a close frame in this step.
Closes(k) ==
    /\ disp[k].alive
    /\ ~disp'[k].alive
    /\ disp'[k].last.type = "close"

\* C15: a response the dispatcher builds from a meta frame and sends on
\* close carries an X-Request-Id header equal to the trace that the attempt
\* sent on the wire as TraceId, whatever headers the meta frame had.
C15_RequestIdIsTrace ==
    [][\A k \in 1..Len(disp) :
        (Closes(k) /\ disp[k].body # <<>>) =>
            \E t \in Traces :
                /\ GetHeader(events[k].open, "trace_id") = <<pack_u64(t)>>
                /\ GetHeader(disp'[k].sent[1].resp.headers, "X-Request-Id")
                        = <<FmtRequestId(t)>>]_vars

\* C16: a close frame that arrives while body is None is answered with
\* Some(response) of status 500, the body "received `close` event without
\* prior meta info", X-Request-Id of the trace and the length of the message
\* as size, and the dispatcher ends.
C16_CloseBeforeMetaRejected ==
    [][\A k \in 1..Len(disp) :
        (Closes(k) /\ disp[k].body = <<>>) =>
            LET reply == disp'[k].sent[1]
            IN  /\ Len(disp'[k].sent) = 1
                /\ reply.some
                /\ reply.resp.status = 500
                /\ reply.resp.body = "received 'close' event without prior meta info"
                /\ GetHeader(reply.resp.headers, "X-Request-Id")
                        = <<FmtRequestId(request.trace)>>
                /\ reply.bytes = Len(reply.resp.body)
                /\ reply.bytes = 46
                /\ chan[k].st = "empty" => chan'[k] = [st |-> "full", val |-> reply]]_vars

C16_Witness ==
    /\ Len(disp) = 1
    /\ events[1].st = "called"
    /\ disp[1].last.type = "close"
    /\ disp[1].sent[1].resp.body = CloseWithoutMeta
    /\ result.st = "Completed"
    /\ result.bytes = Len(CloseWithoutMeta)
    /\ final.st = "Resolved"
    /\ final.resp.status = 500

\* C17: a close frame after meta is answered with the response built so
\* far; it has no body and size 0 when the method is HEAD, or the status is
\* 204 or 304, or the buffered body is empty, or Content-Length is 0, and
\* the buffered body with its length as size in every other case.
C17_CloseAfterMetaTable ==
    [][\A k \in 1..Len(disp) :
        (Closes(k) /\ disp[k].body # <<>>) =>
            LET r == disp[k].response[1]
                b == disp[k].body[1]
                reply == disp'[k].sent[1]
                bodiless == \/ request.method = "HEAD"
                            \/ r.status \in {204, 304}
                            \/ b = ""
                            \/ GetHeader(r.headers, "Content-Length") = <<"0">>
            IN  /\ reply.some
                /\ reply.resp.status = r.status
                /\ reply.resp.headers = r.headers
                /\ IF bodiless
                   THEN reply.resp.body = "" /\ reply.bytes = 0
                   ELSE reply.resp.body = b /\ reply.bytes = Len(b)]_vars

\* A HEAD request whose backend sent meta, two body bytes and close.
C17_Witness ==
    /\ request.method = "HEAD"
    /\ Len(disp) = 1
    /\ disp[1].last.type = "close"
    /\ disp[1].sent[1].some
    /\ disp[1].sent[1].resp.status = 201
    /\ disp[1].sent[1].bytes = 0
    /\ GetHeader(disp[1].sent[1].resp.headers, "Content-Length") = <<"5">>
    /\ result.st = "Completed"

\* C18: with both X-Cocaine-Service and X-Cocaine-Event the parameters are
\* the two header values and the full URI; with exactly one of them the
\* request is answered 400 IncompleteHeadersMatch as a match; with neither
\* the regex decides, and a URI it does not match is handed back as
\* Match::None with nothing posted to the pool.
C18_ExtractParameters ==
    [][(pc = "accept" /\ pc' # "accept") =>
        LET both == http.service # <<>> /\ http.event # <<>>
            neither == http.service = <<>> /\ http.event = <<>>
            got == <<request'.service, request'.event, request'.uri>>
        IN  /\ both =>
                /\ route' = "invoked"
                /\ pc' = "body" =>
                      got = <<http.service[1], http.event[1], Str(http.uri)>>
            /\ (~both /\ ~neither) =>
                /\ route' = "incomplete"
                /\ pc' = "done"
                /\ final' = Resolved([status |-> 400, headers |-> <<>>,
                                      body |-> IncompleteHeadersText])
                /\ events' = <<>>
            /\ neither =>
                IF Cardinality(Slashes(http.uri)) < 2
                THEN /\ route' = "unmatched"
                     /\ pc' = "unmatched"
                     /\ http' = http
                     /\ final' = Pending
                     /\ events' = <<>>
                     /\ log' = NoLog
                ELSE /\ route' = "invoked"
                     /\ pc' = "body" =>
                          /\ http.uri = <<"/", "e", "/", "p">> => got = <<"e", "p", "/">>
                          /\ http.uri = <<"/", "e", "/", "p", "/", "x">>
                                => got = <<"e", "p", "/x">>
                          /\ http.uri = <<"/", "e", "/", "p", "?", "q">>
                                => got = <<"e", "p", "/?q">>
                          /\ http.uri = <<"/", "e", "?", "/", "p">>
                                => got = <<"e?", "p", "/">>
                          /\ http.uri = <<"/", "/", "p">> => got = <<"", "p", "/">>]_vars

C18_Witness ==
    /\ route = "invoked"
    /\ pc = "retry"
    /\ request.service = "app"
    /\ request.event = "ping"
    /\ request.uri = "/e/p?q"
    /\ Len(events) = 1

\* C19: a poll that finds the sender of the current attempt dropped fails
\* the retry future with Canceled whatever attempts is and posts nothing,
\* nothing is posted after it, and the request is answered 500 "canceled".
C19_CanceledAborts ==
    [][/\ (result.st = "Running" /\ current # 0 /\ chan[current].st = "closed"
              /\ chan'[current].st = "taken") =>
            /\ result' = Failed("Canceled")
            /\ events' = events
            /\ attempts' = attempts
            /\ current' = 0
            /\ final' = Resolved([status |-> 500, headers |-> <<>>, body |-> "canceled"])
       /\ result.st = "Failed" =>
            /\ Len(events') = Len(events)
            /\ result' = result]_vars

\* The pool dropped the event of the second attempt.
C19_Witness ==
    /\ result = Failed("Canceled")
    /\ attempts = 2
    /\ Len(events) = 2
    /\ events[2].st = "dropped"
    /\ final.st = "Resolved"
    /\ final.resp.body = "canceled"

\* C20: a discard is always answered with Some(response): status 503 for the
\* service error of category 10 and code 1 and 500 for every other error,
\* category 0x52ff code 1 included, the error text as body and X-Request-Id
\* of the trace; no attempt follows an attempt that was discarded.
C20_DiscardRepliesSome ==
    \A k \in 1..Len(disp) :
        disp[k].last.type = "discard" =>
            LET err == disp[k].last.err
                reply == disp[k].sent[1]
            IN  /\ Len(disp[k].sent) = 1
                /\ reply.some
                /\ reply.resp.status =
                      IF err.kind = "service" /\ err.category = 10 /\ err.code = 1
                      THEN 503 ELSE 500
                /\ (err.kind = "service" /\ err.category = 21247 /\ err.code = 1)
                      => reply.resp.status = 500
                /\ reply.resp.body = err.text
                /\ GetHeader(reply.resp.headers, "X-Request-Id")
                      = <<FmtRequestId(request.trace)>>
                /\ k = Len(events)
                /\ chan[k].st = "taken" =>
                      (result.st = "Dropped" \/ result = Completed(reply.resp, reply.bytes))

C20_Witness ==
    /\ Len(disp) = 1
    /\ attempts = 1
    /\ disp[1].last.type = "discard"
    /\ disp[1].last.err.category = 21247
    /\ disp[1].last.err.code = 1
    /\ result.st = "Completed"
    /\ result.resp.status = 500
    /\ final.st = "Resolved"

\* C21: an attempt whose open succeeded has put exactly open (method 0,
\* [event], the headers of the attempt), payload (method 0, the RequestMeta)
\* and close (method 2, no arguments) on the wire, in this order; an attempt
\* whose open failed has sent nothing; the callback has finished
\* successfully in both cases, and nothing is sent before it runs.
C21_OpenPayloadClose ==
    \A k \in 1..Len(events) :
        LET ev == events[k]
        IN  /\ ~Called(k) => (ev.wire = <<>> /\ ~ev.finished)
            /\ Called(k) =>
                /\ ev.finished
                /\ IF ev.opened
                   THEN /\ Len(ev.wire) = 3
                        /\ ev.wire[1] = [type |-> 0, args |-> <<request.event>>,
                                         headers |-> ev.open]
                        /\ ev.wire[2] = [type |-> 0,
                                         args |-> <<[method |-> request.method,
                                                     uri |-> request.uri,
                                                     version |-> "1.1"]>>,
                                         headers |-> <<>>]
                        /\ ev.wire[3] = [type |-> 2, args |-> <<>>, headers |-> <<>>]
                   ELSE ev.wire = <<>>

\* The first attempt was sent in full and answered queue-full, the open of
\* the second failed and its dispatcher was discarded.
C21_Witness ==
    /\ Len(events) = 2
    /\ Called(1) /\ events[1].opened /\ Len(events[1].wire) = 3
    /\ Called(2) /\ ~events[2].opened /\ events[2].finished
    /\ events[2].wire = <<>>
    /\ disp[2].last.type = "discard"

\* C22: the Timeout made by TimeoutMiddleware::call stays armed for as long
\* as the request is running, whatever the number of attempts: while an
\* attempt is outstanding the select can still resolve to the 504, and a
\* request dropped by the deadline is answered with it.
C22_DeadlineCoversRetries ==
    /\ pc \in {"body", "retry"} => timer = "armed"
    /\ (pc = "retry" /\ PollFuture(chan[current]).kind = "NotReady") => ENABLED Deadline
    /\ inner.st = "Dropped" =>
          /\ timer = "fired"
          /\ final = Resolved([status |-> 504, headers |-> <<>>, body |-> TimedOutBody])

\* Two attempts ended with the retry-safe error and the deadline won during
\* the third.
C22_Witness ==
    /\ attempts = 3
    /\ Len(events) = 3
    /\ disp[1].sent = <<ReplyNone>>
    /\ disp[2].sent = <<ReplyNone>>
    /\ inner.st = "Dropped"
    /\ final.st = "Resolved"
    /\ final.resp.status = 504

\* C23: a data frame that arrives when the meta frame has been taken is
\* not decoded: it appends its bytes to the end of the buffered body and
\* leaves the status and the headers of the response, the trace and the
\* one-shot channel as they were; the first data frame leaves the body empty.
C23_LaterFramesAppend ==
    [][\A k \in 1..Len(disp) :
        (disp[k].alive /\ disp'[k].alive /\ disp'[k] # disp[k]) =>
            IF disp[k].body = <<>>
            THEN disp'[k].body = <<"">>
            ELSE /\ \E frame \in DataFrames :
                        disp'[k].body = <<disp[k].body[1] \o frame.bytes>>
                 /\ Len(disp'[k].body[1]) > Len(disp[k].body[1])
                 /\ disp'[k].response = disp[k].response
                 /\ disp'[k].sent = <<>>
                 /\ chan' = chan
                 /\ request' = request]_vars

\* Meta with code 201, then the bytes "a", then bytes that would decode as a
\* meta with code 200.
C23_Witness ==
    /\ Len(disp) = 1
    /\ disp[1].alive
    /\ disp[1].body = <<"aM">>
    /\ disp[1].response[1].status = 201
    /\ chan[1].st = "empty"

\* C24: the status of the response is the code of the meta frame when the
\* code is a valid HTTP status, and 500 for every other code.
C24_InvalidCodeIs500 ==
    \A k \in 1..Len(disp) :
        (disp[k].alive /\ disp[k].last.type = "meta") =>
            disp[k].response[1].status =
                IF disp[k].last.meta.code >= 100 /\ disp[k].last.meta.code <= 599
                THEN disp[k].last.meta.code ELSE 500

\* The values of the headers of hs that have the name, in order.
ValuesOf(hs, name) ==
    LET named == SelectSeq(hs, LAMBDA h : h[1] = name)
    IN  [i \in 1..Len(named) |-> named[i][2]]

\* C25: for every name in the headers of the meta frame the response has
\* all the values the meta frame gave for it, in the order of the frame.
C25_DuplicateHeadersKept ==
    \A k \in 1..Len(disp) :
        (disp[k].alive /\ disp[k].last.type = "meta") =>
            \A i \in 1..Len(disp[k].last.meta.headers) :
                LET name == disp[k].last.meta.headers[i][1]
                IN  name # XRequestIdName =>
                        ValuesOf(disp[k].response[1].headers, name)
                            = ValuesOf(disp[k].last.meta.headers, name)

\* C26: the service error of category 0x52ff and code 1 that comes when the
\* meta frame has been taken is answered None like one that comes first, the
\* response and the body built so far are dropped, and the poll that takes
\* the None below the limit posts the next attempt.
C26_RetrySafeAfterMeta ==
    [][/\ \A k \in 1..Len(disp) :
            (/\ disp[k].alive /\ disp[k].body # <<>>
             /\ ~disp'[k].alive
             /\ disp'[k].last.type = "error"
             /\ disp'[k].last.err.kind = "service"
             /\ disp'[k].last.err.category = 21247
             /\ disp'[k].last.err.code = 1) =>
                /\ disp'[k].sent = <<ReplyNone>>
                /\ disp'[k].body = <<>>
                /\ disp'[k].response = <<>>
                /\ chan[k].st = "empty" => chan'[k] = [st |-> "full", val |-> ReplyNone]
       /\ (PollsNone /\ attempts < limit /\ disp[current].last.after_meta) =>
                /\ attempts' = attempts + 1
                /\ Len(events') = Len(events) + 1
                /\ events'[Len(events')].st = "queued"
                /\ result'.st = "Running"]_vars

\* The first attempt got a meta frame, then the retry-safe error, and the
\* second attempt has been posted.
C26_Witness ==
    /\ Len(events) = 2
    /\ attempts = 2
    /\ disp[1].last.type = "error"
    /\ disp[1].last.after_meta
    /\ disp[1].sent = <<ReplyNone>>
    /\ events[2].st = "queued"
    /\ result.st = "Running"

\* C27: when the poll that resolves the select finds the inner future
\* resolved and the Timeout fired, the result is that of the inner future
\* and not the 504.
C27_InnerPolledFirst ==
    [][(final.st = "Pending" /\ timer' = "fired" /\ inner'.st = "Resolved") =>
            /\ final' = inner'
            /\ final'.resp.status # 504
            /\ final'.resp.body # TimedOutBody]_vars

C27_Witness ==
    /\ timer = "fired"
    /\ inner.st = "Resolved"
    /\ result.st = "Completed"
    /\ final = inner
    /\ final.resp.status = 201

\* C28: requests is marked once by the call; c5xx is marked once when the
\* future of the router resolved to a response with a server error status
\* and not otherwise: not for the 504 of TimeoutMiddleware, not for a
\* request dropped by the deadline.
C28_MetersMarked ==
    /\ metrics.requests = IF pc = "accept" THEN 0 ELSE 1
    /\ metrics.c5xx =
          IF inner.st = "Resolved" /\ inner.resp.status >= 500 /\ inner.resp.status <= 599
          THEN 1 ELSE 0
    /\ inner.st = "Dropped" =>
          /\ final.st = "Resolved"
          /\ final.resp.status = 504
          /\ metrics.c5xx = 0

\* The deadline dropped the request while its first attempt was being
\* answered.
C28_Witness ==
    /\ inner.st = "Dropped"
    /\ final.resp.status = 504
    /\ metrics = [requests |-> 1, c5xx |-> 0]
    /\ Len(disp) = 1
    /\ disp[1].last.type = "error"
    /\ disp[1].sent # <<>>
    /\ disp[1].sent[1].some
    /\ disp[1].sent[1].resp.status = 500

====
